---- MODULE Spec2Model ----
(***************************************************************************)
(* The JSON-file backed scrum board of .scrum/scrum_cli.py and the summary *)
(* statistics of .scrum/generate_static.py.                                *)
(*                                                                         *)
(* The persisted store is config.json (next_issue_id), board.json (column  *)
(* name -> list of issue ids) and issues/NNN.json (one document per        *)
(* issue).  Every command line invocation is one action.  The fields of an *)
(* issue document that no operation reads back (title, body, assignee,     *)
(* labels, created, sprint, ...) are left out of the document record.      *)
(***************************************************************************)
EXTENDS Integers, Sequences, FiniteSets, TLC

\* ------------------------------------------------------------------ bounds
MaxIssues == 2      \* CreateIssue is enabled while next_issue_id <= MaxIssues
MaxClock == 1       \* datetime.now() reads a value in 0..MaxClock
MaxCrashes == 1     \* number of interrupted invocations in one behaviour
MaxListed == 3      \* SpecRead: board entries of an initial store
MaxStoreIds == 2    \* SpecRead: issue ids of an initial store

\* --------------------------------------------------------------- constants
ColumnOrder == <<"backlog", "todo", "in_progress", "review", "done">>

Columns == {ColumnOrder[i] : i \in 1..Len(ColumnOrder)}

\* a status string that is not a key of board.json
AdHocStatus == "archived"

Statuses == Columns \cup {AdHocStatus}

\* list_issues(status=None); the empty string is falsy as well
NoStatus == ""

VARIABLES
    next_issue_id,  \* config.json: config['next_issue_id']
    board,          \* board.json: column name -> sequence of issue ids
    issues,         \* issues/: file name -> issue document
    clock,          \* the last value datetime.now() returned
    returned,       \* the ids returned by completed create_issue calls, in order
    crashes,        \* number of invocations interrupted so far
    last            \* the last invocation: command, arguments, outcome, output

vars == <<next_issue_id, board, issues, clock, returned, crashes, last>>

\* ------------------------------------------------------------ python lists
\* x in seq
In(x, seq) == \E i \in 1..Len(seq) : seq[i] = x

\* seq.count(x)
Count(x, seq) == Cardinality({i \in 1..Len(seq) : seq[i] = x})

\* list.remove(x): drops the first occurrence of x
RECURSIVE Remove(_, _)
Remove(seq, x) ==
    IF seq = <<>> THEN <<>>
    ELSE IF Head(seq) = x THEN Tail(seq)
    ELSE <<Head(seq)>> \o Remove(Tail(seq), x)

\* ------------------------------------------------------------- file names
RECURSIVE Digits(_)
Digits(n) == IF n < 10 THEN <<n>> ELSE Digits(n \div 10) \o <<n % 10>>

RECURSIVE ZeroPad(_, _)
ZeroPad(d, width) == IF Len(d) < width THEN ZeroPad(<<0>> \o d, width) ELSE d

\* ISSUES_DIR / f"{issue_id:03d}.json"
IssueFile(issue_id) == ZeroPad(Digits(issue_id), 3)

\* issue_file.exists()
Exists(docs, issue_id) == IssueFile(issue_id) \in DOMAIN docs

\* save_json(issue_file, issue): the whole document is overwritten
SaveIssue(docs, issue_id, issue) == (IssueFile(issue_id) :> issue) @@ docs

\* the persisted store
store == <<next_issue_id, board, issues>>

EmptyBoard == [c \in Columns |-> <<>>]

NoFiles == [f \in {} |-> 0]

NoCall == [op |-> "none", id |-> 0, target |-> NoStatus, outcome |-> "none",
           repeat |-> FALSE, ret |-> 0]

Call(op, id, target, outcome, ret) ==
    [op |-> op, id |-> id, target |-> target, outcome |-> outcome,
     repeat |-> /\ last.op = op /\ last.id = id /\ last.target = target
                /\ last.outcome = "ok" /\ outcome = "ok",
     ret |-> ret]

\* ------------------------------------------------------------------- Init
Init ==
    /\ next_issue_id = 1
    /\ board = EmptyBoard
    /\ issues = NoFiles
    /\ clock = 0
    /\ returned = <<>>
    /\ crashes = 0
    /\ last = NoCall

\* ----------------------------------------------------------- create_issue
\* (mutation) the counter is written back without the increment
get_next_issue_id_stale(counter) ==
    [issue_id |-> counter, next_issue_id |-> counter]

\* get_next_issue_id(): the id handed out and the counter written back
get_next_issue_id(counter) ==
    [issue_id |-> counter, next_issue_id |-> counter + 1]

\* the issue document create_issue builds
NewIssue(issue_id, now) ==
    [id |-> issue_id, status |-> "backlog", updated |-> now]

\* (mutation) the new id is put in front of the column
AddToBacklogFront(b, issue_id) == [b EXCEPT !["backlog"] = <<issue_id>> \o @]

\* board['backlog'].append(issue_id)
AddToBacklog(b, issue_id) == [b EXCEPT !["backlog"] = Append(@, issue_id)]

CreateIssue(now) ==
    /\ next_issue_id <= MaxIssues
    /\ LET a == get_next_issue_id(next_issue_id)
       IN /\ next_issue_id' = a.next_issue_id
          /\ issues' = SaveIssue(issues, a.issue_id, NewIssue(a.issue_id, now))
          /\ board' = AddToBacklog(board, a.issue_id)
          /\ returned' = Append(returned, a.issue_id)
          /\ last' = Call("create", a.issue_id, NoStatus, "ok", a.issue_id)
    /\ clock' = now
    /\ UNCHANGED crashes

\* (mutation) the counter is written back last, after the document and the
\* board
CreateIssueInterruptedCounterLast(now, at) ==
    /\ next_issue_id <= MaxIssues
    /\ crashes < MaxCrashes
    /\ LET a == get_next_issue_id(next_issue_id)
       IN /\ issues' = SaveIssue(issues, a.issue_id, NewIssue(a.issue_id, now))
          /\ board' = IF at >= 2 THEN AddToBacklog(board, a.issue_id) ELSE board
          /\ next_issue_id' = IF at >= 3 THEN a.next_issue_id ELSE next_issue_id
          /\ last' = Call("create", a.issue_id, NoStatus, "interrupted", 0)
    /\ clock' = now
    /\ crashes' = crashes + 1
    /\ UNCHANGED returned

\* create_issue interrupted after its at-th write: 1 config.json, 2 the issue
\* document, 3 board.json (nothing is returned to the caller)
CreateIssueInterrupted(now, at) ==
    /\ next_issue_id <= MaxIssues
    /\ crashes < MaxCrashes
    /\ LET a == get_next_issue_id(next_issue_id)
       IN /\ next_issue_id' = a.next_issue_id
          /\ issues' = IF at >= 2
                       THEN SaveIssue(issues, a.issue_id, NewIssue(a.issue_id, now))
                       ELSE issues
          /\ board' = IF at >= 3 THEN AddToBacklog(board, a.issue_id) ELSE board
          /\ last' = Call("create", a.issue_id, NoStatus, "interrupted", 0)
    /\ clock' = now
    /\ crashes' = crashes + 1
    /\ UNCHANGED returned

\* ---------------------------------------------------- update_issue_status
\* load_json(issue_file)
LoadIssue(docs, issue_id) == docs[IssueFile(issue_id)]

\* (mutation) the id stays in its old column
RemoveFromOldSkipped(b, old_status, issue_id) == b

\* if issue_id in board[old_status]: board[old_status].remove(issue_id)
RemoveFromOld(b, old_status, issue_id) ==
    IF In(issue_id, b[old_status])
    THEN [b EXCEPT ![old_status] = Remove(@, issue_id)]
    ELSE b

\* (mutation) the id is put in front of the new column
AddToNewFront(b, new_status, issue_id) ==
    IF ~In(issue_id, b[new_status])
    THEN [b EXCEPT ![new_status] = <<issue_id>> \o @]
    ELSE b

\* (mutation) the id is appended without the membership test
AddToNewAlways(b, new_status, issue_id) ==
    [b EXCEPT ![new_status] = Append(@, issue_id)]

\* if issue_id not in board[new_status]: board[new_status].append(issue_id)
AddToNew(b, new_status, issue_id) ==
    IF ~In(issue_id, b[new_status])
    THEN [b EXCEPT ![new_status] = Append(@, issue_id)]
    ELSE b

\* (mutation) the status field is not written
UpdateIssueTimeOnly(issue, new_status, now) == [issue EXCEPT !.updated = now]

\* issue['status'] = new_status; issue['updated'] = datetime.now().isoformat()
UpdateIssue(issue, new_status, now) ==
    [issue EXCEPT !.status = new_status, !.updated = now]

\* (mutation) the old column is left alone when it is the new one, and the
\* id is appended without the membership test
update_issue_status_append(docs, b, issue_id, new_status, now) ==
    IF ~Exists(docs, issue_id)
    THEN [outcome |-> "FileNotFoundError", issues |-> docs, board |-> b]
    ELSE LET issue == LoadIssue(docs, issue_id)
             old_status == issue.status
         IN IF old_status \notin DOMAIN b \/ new_status \notin DOMAIN b
            THEN [outcome |-> "KeyError", issues |-> docs, board |-> b]
            ELSE [outcome |-> "ok",
                  issues |-> SaveIssue(docs, issue_id,
                                       UpdateIssue(issue, new_status, now)),
                  board |-> LET b1 == IF old_status # new_status
                                      THEN RemoveFromOld(b, old_status, issue_id)
                                      ELSE b
                            IN [b1 EXCEPT ![new_status] = Append(@, issue_id)]]

\* (mutation) board.setdefault(new_status, []): an unknown name becomes a column
update_issue_status_setdefault(docs, b, issue_id, new_status, now) ==
    IF ~Exists(docs, issue_id)
    THEN [outcome |-> "FileNotFoundError", issues |-> docs, board |-> b]
    ELSE LET issue == LoadIssue(docs, issue_id)
             old_status == issue.status
             b0 == IF new_status \in DOMAIN b THEN b ELSE (new_status :> <<>>) @@ b
         IN IF old_status \notin DOMAIN b
            THEN [outcome |-> "KeyError", issues |-> docs, board |-> b]
            ELSE [outcome |-> "ok",
                  issues |-> SaveIssue(docs, issue_id,
                                       UpdateIssue(issue, new_status, now)),
                  board |-> AddToNew(RemoveFromOld(b0, old_status, issue_id),
                                     new_status, issue_id)]

\* (mutation) the board is loaded, changed and saved before the issue is loaded
update_issue_status_board_first(docs, b, issue_id, new_status, now) ==
    IF ~Exists(docs, issue_id)
    THEN [outcome |-> "FileNotFoundError", issues |-> docs,
          board |-> IF new_status \in DOMAIN b
                    THEN AddToNew(b, new_status, issue_id) ELSE b]
    ELSE LET issue == LoadIssue(docs, issue_id)
             old_status == issue.status
         IN IF old_status \notin DOMAIN b \/ new_status \notin DOMAIN b
            THEN [outcome |-> "KeyError", issues |-> docs, board |-> b]
            ELSE [outcome |-> "ok",
                  issues |-> SaveIssue(docs, issue_id,
                                       UpdateIssue(issue, new_status, now)),
                  board |-> AddToNew(RemoveFromOld(b, old_status, issue_id),
                                     new_status, issue_id)]

\* update_issue_status(issue_id, new_status): how the call ends and what it
\* has saved by then.  open() of a missing issue file raises
\* FileNotFoundError and board[name] with a name that is no key of the board
\* raises KeyError; both are raised before the first save_json.
update_issue_status(docs, b, issue_id, new_status, now) ==
    IF ~Exists(docs, issue_id)
    THEN [outcome |-> "FileNotFoundError", issues |-> docs, board |-> b]
    ELSE LET issue == LoadIssue(docs, issue_id)
             old_status == issue.status
         IN IF old_status \notin DOMAIN b \/ new_status \notin DOMAIN b
            THEN [outcome |-> "KeyError", issues |-> docs, board |-> b]
            ELSE [outcome |-> "ok",
                  issues |-> SaveIssue(docs, issue_id,
                                       UpdateIssue(issue, new_status, now)),
                  board |-> AddToNew(RemoveFromOld(b, old_status, issue_id),
                                     new_status, issue_id)]

TransitionStatus(issue_id, new_status, now) ==
    LET r == update_issue_status(issues, board, issue_id, new_status, now)
    IN /\ r.outcome = "ok"
       /\ issues' = r.issues
       /\ board' = r.board
       /\ last' = Call("status", issue_id, new_status, r.outcome, 0)
       /\ clock' = now
       /\ UNCHANGED <<next_issue_id, returned, crashes>>

\* the traceback path: datetime.now() has not been read
TransitionStatusFails(issue_id, new_status) ==
    LET r == update_issue_status(issues, board, issue_id, new_status, clock)
    IN /\ r.outcome # "ok"
       /\ issues' = r.issues
       /\ board' = r.board
       /\ last' = Call("status", issue_id, new_status, r.outcome, 0)
       /\ UNCHANGED <<next_issue_id, clock, returned, crashes>>

\* update_issue_status interrupted between save_json(issue_file, issue) and
\* save_json(BOARD_FILE, board)
TransitionStatusInterrupted(issue_id, new_status, now) ==
    LET r == update_issue_status(issues, board, issue_id, new_status, now)
    IN /\ r.outcome = "ok"
       /\ crashes < MaxCrashes
       /\ issues' = r.issues
       /\ last' = Call("status", issue_id, new_status, "interrupted", 0)
       /\ clock' = now
       /\ crashes' = crashes + 1
       /\ UNCHANGED <<next_issue_id, board, returned>>

\* --------------------------------------------------- get_issue, list_issues
Header(col) == [kind |-> "header", col |-> col, id |-> 0]

NotFound(col, issue_id) == [kind |-> "not found", col |-> col, id |-> issue_id]

IssueLine(col, issue) == [kind |-> "issue", col |-> col, id |-> issue.id]

\* get_issue(issue_id) and the line list_issues prints for it
GetIssueLine(docs, col, issue_id) ==
    IF ~Exists(docs, issue_id)
    THEN NotFound(col, issue_id)
    ELSE IssueLine(col, LoadIssue(docs, issue_id))

\* (mutation) the loop ends at the first id without a document
RECURSIVE IssueLinesUntilMissing(_, _, _)
IssueLinesUntilMissing(docs, col, ids) ==
    IF ids = <<>> THEN <<>>
    ELSE IF ~Exists(docs, Head(ids)) THEN <<NotFound(col, Head(ids))>>
    ELSE <<GetIssueLine(docs, col, Head(ids))>>
         \o IssueLinesUntilMissing(docs, col, Tail(ids))

\* for issue_id in board[col]: ...
RECURSIVE IssueLines(_, _, _)
IssueLines(docs, col, ids) ==
    IF ids = <<>> THEN <<>>
    ELSE <<GetIssueLine(docs, col, Head(ids))>> \o IssueLines(docs, col, Tail(ids))

\* if board[col]: print the header, then the issues
ColumnLines(b, docs, col) ==
    IF b[col] # <<>> THEN <<Header(col)>> \o IssueLines(docs, col, b[col])
    ELSE <<>>

\* for col in columns: ...
RECURSIVE ListLines(_, _, _)
ListLines(b, docs, columns) ==
    IF columns = <<>> THEN <<>>
    ELSE ColumnLines(b, docs, Head(columns)) \o ListLines(b, docs, Tail(columns))

\* columns = [status] if status else the five columns
ListColumns(status) == IF status # NoStatus THEN <<status>> ELSE ColumnOrder

ListIssues(status) ==
    /\ \A i \in 1..Len(ListColumns(status)) : ListColumns(status)[i] \in DOMAIN board
    /\ last' = Call("list", 0, status, "ok",
                    ListLines(board, issues, ListColumns(status)))
    /\ UNCHANGED <<next_issue_id, board, issues, clock, returned, crashes>>

\* board[col] with a status that is no key of the board
ListIssuesFails(status) ==
    /\ \E i \in 1..Len(ListColumns(status)) : ListColumns(status)[i] \notin DOMAIN board
    /\ last' = Call("list", 0, status, "KeyError", <<>>)
    /\ UNCHANGED <<next_issue_id, board, issues, clock, returned, crashes>>

\* ------------------------------------------ render_markdown, renderStats
\* the keys of the issues dict: the ids some column lists whose document exists
Resolved(b, docs) ==
    {id \in UNION {{b[c][i] : i \in 1..Len(b[c])} : c \in Columns} : Exists(docs, id)}

\* Python round() of the fraction n/d: ties go to the even integer.
\* done_count / total * 100 is a float; it is the exact quotient's rounding
\* for every total below 40.
PyRound(n, d) ==
    LET q == n \div d
        r == n % d
    IN IF 2 * r < d THEN q
       ELSE IF 2 * r > d THEN q + 1
       ELSE IF q % 2 = 0 THEN q ELSE q + 1

\* JavaScript Math.round() of the fraction n/d: ties go up
JsRound(n, d) ==
    LET q == n \div d
        r == n % d
    IN IF 2 * r < d THEN q ELSE q + 1

Finite(n) == [finite |-> TRUE, value |-> n]

Infinity == [finite |-> FALSE, value |-> 0]

\* total = len(issues); done_count = len(board["done"])
\* progress = round((done_count / total * 100)) if total > 0 else 0
MarkdownSummary(b, docs) ==
    LET total == Cardinality(Resolved(b, docs))
        done_count == Len(b["done"])
    IN [total |-> total, done_count |-> done_count,
        progress |-> IF total > 0 THEN Finite(PyRound(done_count * 100, total))
                     ELSE Finite(0)]

\* const progress = Math.round((doneCount / totalIssues) * 100) || 0;
\* 0/0 is NaN, which || replaces by 0; n/0 is Infinity, which it keeps
StatsSummary(b, docs) ==
    LET totalIssues == Cardinality(Resolved(b, docs))
        doneCount == Len(b["done"])
    IN [total |-> totalIssues, done_count |-> doneCount,
        progress |-> IF totalIssues > 0
                     THEN Finite(JsRound(doneCount * 100, totalIssues))
                     ELSE IF doneCount = 0 THEN Finite(0) ELSE Infinity]

RenderMarkdown ==
    /\ last' = Call("markdown", 0, NoStatus, "ok", MarkdownSummary(board, issues))
    /\ UNCHANGED <<next_issue_id, board, issues, clock, returned, crashes>>

RenderStats ==
    /\ last' = Call("dashboard", 0, NoStatus, "ok", StatsSummary(board, issues))
    /\ UNCHANGED <<next_issue_id, board, issues, clock, returned, crashes>>

\* --------------------------------------------------------- specifications
Nows == clock..MaxClock

IssueIds == 1..MaxIssues

Filters == Statuses \cup {NoStatus}

Create == \E now \in Nows : CreateIssue(now)

Transition == \E id \in IssueIds, s \in Statuses, now \in Nows : TransitionStatus(id, s, now)

TransitionFails == \E id \in IssueIds, s \in Statuses : TransitionStatusFails(id, s)

List == \E s \in Filters : ListIssues(s)

ListFails == \E s \in Filters : ListIssuesFails(s)

\* the commands that write the store; every invocation runs to completion
Next ==
    \/ Create
    \/ Transition
    \/ TransitionFails

Spec == Init /\ [][Next]_vars

\* The commands that save something, when an invocation may also stop between
\* two of its writes.  What an interruption leaves behind does not depend on
\* the time stamps, so here every datetime.now() reads the same value.
CreateStill == CreateIssue(clock)

TransitionStill == \E id \in IssueIds, s \in Statuses : TransitionStatus(id, s, clock)

CreateCrash == \E at \in 1..3 : CreateIssueInterrupted(clock, at)

TransitionCrash ==
    \E id \in IssueIds, s \in Statuses : TransitionStatusInterrupted(id, s, clock)

NextCrash ==
    \/ CreateStill
    \/ TransitionStill
    \/ CreateCrash
    \/ TransitionCrash

SpecCrash == Init /\ [][NextCrash]_vars

\* ------------------------------------------------ stores found on disk
\* list_issues, render_markdown and renderStats are functions of the store
\* they find.  get_issue and generate_static_dashboard test
\* issue_file.exists(), so the stores they are written for include boards
\* that list an id whose document is gone (a removed file, a hand-edited
\* board.json).  An id may be listed in several columns (see SpecCrash) but,
\* because of the membership test before every append, never twice in one.
\* SpecRead applies them to every such store of a bounded size.
BoundedSeq(S, n) == UNION {[1..k -> S] : k \in 0..n}

\* the entries of s that place puts into column c, in the order of s
RECURSIVE Placed(_, _, _)
Placed(s, place, c) ==
    IF s = <<>> THEN <<>>
    ELSE LET rest == Placed(Tail(s), [i \in 1..(Len(s) - 1) |-> place[i + 1]], c)
         IN IF place[1] = c THEN <<Head(s)>> \o rest ELSE rest

\* the first column, in board order, that lists id
RECURSIVE FirstColumn(_, _, _)
FirstColumn(b, id, columns) ==
    IF columns = <<>> THEN "backlog"
    ELSE IF In(id, b[Head(columns)]) THEN Head(columns)
    ELSE FirstColumn(b, id, Tail(columns))

FoundDocs(b, D) ==
    [f \in {IssueFile(id) : id \in D} |->
        LET id == CHOOSE i \in D : IssueFile(i) = f
        IN [id |-> id, status |-> FirstColumn(b, id, ColumnOrder), updated |-> 0]]

InitRead ==
    \E s \in BoundedSeq(1..MaxStoreIds, MaxListed), D \in SUBSET (1..MaxStoreIds) :
        \E place \in [1..Len(s) -> Columns] :
            /\ board = [c \in Columns |-> Placed(s, place, c)]
            /\ \A c \in Columns : \A id \in 1..MaxStoreIds : Count(id, board[c]) <= 1
            /\ issues = FoundDocs(board, D)
            /\ next_issue_id = MaxStoreIds + 1
            /\ clock = 0
            /\ returned = <<>>
            /\ crashes = 0
            /\ last = NoCall

NextRead ==
    \/ List
    \/ ListFails
    \/ RenderMarkdown
    \/ RenderStats

SpecRead == InitRead /\ [][NextRead]_vars

\* ------------------------------------------------------------ properties
\* the number of times id is listed in the columns of b other than c
ListedElsewhere(b, id, c) ==
    Cardinality({d \in DOMAIN b \ {c} : In(id, b[d])})

\* C1: in every state reached by completed CreateIssue and TransitionStatus
\* invocations, every issue that has a document is listed in exactly one
\* board column, exactly once, and its status field names that column.
C1_StatusMatchesColumn ==
    \A f \in DOMAIN issues :
        LET issue == issues[f]
        IN /\ issue.status \in DOMAIN board
           /\ Count(issue.id, board[issue.status]) = 1
           /\ ListedElsewhere(board, issue.id, issue.status) = 0

C1_Witness ==
    /\ last.op = "status" /\ last.outcome = "ok"
    /\ Len(board["review"]) = 2
    /\ Cardinality(DOMAIN issues) = 2

\* C2: every id a completed CreateIssue returns is the value next_issue_id
\* had when the call began and is greater than every id returned before, so
\* the returned ids are strictly increasing and none is returned twice.
C2_ReturnedIdsIncrease ==
    [][returned' # returned =>
          /\ returned' = Append(returned, next_issue_id)
          /\ last'.ret = next_issue_id
          /\ \A i \in 1..Len(returned) : returned[i] < next_issue_id]_vars

C2_Witness ==
    /\ last.op = "create" /\ last.outcome = "ok"
    /\ Len(returned) >= 2
    /\ \E c \in Columns \ {"backlog"} : board[c] # <<>>

\* C3: after a completed CreateIssue the new id is the last element of the
\* backlog column, is listed there once and in no other column, and its
\* document has status "backlog".
C3_CreatedInBacklog ==
    (last.op = "create" /\ last.outcome = "ok") =>
        /\ board["backlog"] # <<>>
        /\ board["backlog"][Len(board["backlog"])] = last.ret
        /\ Count(last.ret, board["backlog"]) = 1
        /\ ListedElsewhere(board, last.ret, "backlog") = 0
        /\ Exists(issues, last.ret)
        /\ LoadIssue(issues, last.ret).id = last.ret
        /\ LoadIssue(issues, last.ret).status = "backlog"

C3_Witness ==
    /\ last.op = "create" /\ last.outcome = "ok"
    /\ Len(board["backlog"]) = 2

\* C4: after TransitionStatus(issueId, newStatus) with an existing issue and
\* one of the five columns completes, issueId is listed in column newStatus
\* exactly once and in no other column, and the issue's status is newStatus.
C4_MovedToNewStatus ==
    (last.op = "status" /\ last.target \in Columns /\ Exists(issues, last.id)) =>
        /\ last.outcome = "ok"
        /\ Count(last.id, board[last.target]) = 1
        /\ ListedElsewhere(board, last.id, last.target) = 0
        /\ LoadIssue(issues, last.id).status = last.target

C4_Witness ==
    /\ last.op = "status" /\ last.outcome = "ok"
    /\ last.target = "in_progress"
    /\ Len(board["in_progress"]) = 2
    /\ board["in_progress"][2] = last.id

\* C5 (as claimed): a second TransitionStatus(issueId, s) right after a first
\* one leaves the board and every issue document as the first call left them.
C5_RepeatChangesNothing ==
    [][(last'.op = "status" /\ last'.repeat) =>
          /\ board' = board
          /\ issues' = issues]_vars

\* C5 (amended): on a store reached by completed invocations, a second
\* TransitionStatus(issueId, s) right after a first one leaves the board
\* (contents and order of every column), the counter, every other document
\* and the issue's id and status as they were; the issue's updated stamp is
\* rewritten with the time of the second call.
C5_RepeatKeepsBoardAndStatus ==
    [][(last'.op = "status" /\ last'.repeat) =>
          /\ board' = board
          /\ next_issue_id' = next_issue_id
          /\ DOMAIN issues' = DOMAIN issues
          /\ \A f \in DOMAIN issues :
                /\ issues'[f].id = issues[f].id
                /\ issues'[f].status = issues[f].status
                /\ f # IssueFile(last'.id) => issues'[f] = issues[f]
          /\ LoadIssue(issues', last'.id).status = last'.target
          /\ LoadIssue(issues', last'.id).updated = clock']_vars

C5_Witness ==
    /\ last.op = "status" /\ last.repeat
    /\ Len(board[last.target]) = 2
    /\ board[last.target][2] = last.id
    /\ LoadIssue(issues, last.id).updated > 0

\* C6 (as claimed): TransitionStatus on an existing issue with a name that
\* is not a column of the board completes, and the board then has a column
\* of that name listing the issue, whose status is that name.
C6_UnknownStatusMakesColumn ==
    (last.op = "status" /\ Exists(issues, last.id) /\ last.target \notin Columns) =>
        /\ last.outcome = "ok"
        /\ last.target \in DOMAIN board
        /\ In(last.id, board[last.target])
        /\ LoadIssue(issues, last.id).status = last.target

\* C6 (amended): TransitionStatus on an existing issue with a name that is
\* not a key of the board ends with a KeyError before anything is saved: the
\* board gets no new column and the board, the documents and the counter are
\* as before.
C6_UnknownStatusRaises ==
    [][(last'.op = "status" /\ Exists(issues, last'.id)
            /\ last'.target \notin DOMAIN board) =>
          /\ last'.outcome = "KeyError"
          /\ UNCHANGED store]_vars

C6_Witness ==
    /\ last.op = "status" /\ last.outcome = "KeyError"
    /\ last.target = AdHocStatus
    /\ Exists(issues, last.id)
    /\ LoadIssue(issues, last.id).status = "review"
    /\ DOMAIN board = Columns

\* C7: TransitionStatus on an id without a document ends with a not-found
\* error and leaves the board, the counter and every document as they were.
C7_MissingIssueChangesNothing ==
    [][(last'.op = "status" /\ ~Exists(issues, last'.id)) =>
          /\ last'.outcome = "FileNotFoundError"
          /\ UNCHANGED store]_vars

C7_Witness ==
    /\ last.op = "status" /\ last.outcome = "FileNotFoundError"
    /\ last.target \in Columns
    /\ ~Exists(issues, last.id)
    /\ DOMAIN issues # {}
    /\ board["todo"] # <<>>

\* C8 (as claimed): the summary's total is the number of listed issues whose
\* document exists, and its progress is 0 when that total is 0 and otherwise
\* the integer nearest to 100 * doneCount / total, doneCount being the
\* number of those issues that the done column lists.
C8_ProgressOfResolvedIssues ==
    (last.op \in {"markdown", "dashboard"}) =>
        LET counted == {id \in 1..(next_issue_id - 1) :
                           /\ Exists(issues, id)
                           /\ \E c \in Columns : In(id, board[c])}
            total == Cardinality(counted)
            doneCount == Cardinality({id \in counted : In(id, board["done"])})
            p == last.ret.progress
        IN /\ last.ret.total = total
           /\ p.finite
           /\ total = 0 => p.value = 0
           /\ total > 0 =>
                 /\ 2 * (p.value * total - 100 * doneCount) <= total
                 /\ 2 * (100 * doneCount - p.value * total) <= total

\* C9: ListIssues yields, for each requested column (all five, or the one
\* given), exactly the ids of that column whose document exists, in the
\* column's order and in board order of the columns; an id without a
\* document is skipped and the call still completes.
C9_ListSkipsMissing ==
    (last.op = "list" /\ last.target \in Columns \cup {NoStatus}) =>
        /\ last.outcome = "ok"
        /\ \A c \in Columns :
              LET shown == SelectSeq(last.ret,
                               LAMBDA l : l.kind = "issue" /\ l.col = c)
                  kept == SelectSeq(board[c], LAMBDA id : Exists(issues, id))
              IN IF last.target \in {NoStatus, c}
                 THEN /\ Len(shown) = Len(kept)
                      /\ \A i \in 1..Len(kept) : shown[i].id = kept[i]
                 ELSE shown = <<>>
        /\ \A i, j \in 1..Len(last.ret) :
              (i < j /\ last.ret[i].col # last.ret[j].col) =>
                  \E m, n \in 1..Len(ColumnOrder) :
                      /\ m < n
                      /\ ColumnOrder[m] = last.ret[i].col
                      /\ ColumnOrder[n] = last.ret[j].col

C9_Witness ==
    /\ last.op = "list" /\ last.target = "done" /\ last.outcome = "ok"
    /\ Len(board["done"]) = 2
    /\ ~Exists(issues, board["done"][1])
    /\ Exists(issues, board["done"][2])
    /\ \E i \in 1..Len(last.ret) : last.ret[i].kind = "issue"

\* C10 (as claimed): when the issue document's status and the board's
\* listing of the id disagree, one completed TransitionStatus(issueId, C)
\* leaves the id in column C only, once, with status C.
C10_TransitionRepairsDisagreement ==
    [][(/\ last'.op = "status" /\ last'.outcome = "ok"
        /\ Exists(issues, last'.id)
        /\ \/ ~In(last'.id, board[LoadIssue(issues, last'.id).status])
           \/ ListedElsewhere(board, last'.id,
                              LoadIssue(issues, last'.id).status) > 0) =>
          /\ Count(last'.id, board'[last'.target]) = 1
          /\ ListedElsewhere(board', last'.id, last'.target) = 0
          /\ LoadIssue(issues', last'.id).status = last'.target]_vars

C12_CounterAboveEveryId ==
    /\ \A f \in DOMAIN issues : issues[f].id < next_issue_id
    /\ \A c \in DOMAIN board :
          \A i \in 1..Len(board[c]) : board[c][i] < next_issue_id
    /\ ~Exists(issues, next_issue_id)

C12_Witness ==
    /\ last.op = "create" /\ last.outcome = "interrupted"
    /\ Exists(issues, last.id)
    /\ \A c \in Columns : ~In(last.id, board[c])
    /\ next_issue_id = last.id + 1
    /\ Cardinality(DOMAIN issues) = 2

TypeOK ==
    /\ next_issue_id \in 1..(MaxIssues + 1)
    /\ DOMAIN board = Columns
    /\ clock \in 0..MaxClock
    /\ crashes \in 0..MaxCrashes

====
